---- MODULE Spec2Model ----
(***************************************************************************)
(* The simulation/control core of the ADS dam dashboard (App.tsx): the     *)
(* periodic tick (tickSimulation), the manual jog handlers, the watering   *)
(* order handlers and the effects that follow a change of activeOrder.     *)
(*                                                                         *)
(* Numbers.  The program computes in IEEE doubles; the model computes in   *)
(* fixed point, every quantity an integer count of a unit:                 *)
(*   water levels      1/LevelScale m        (0.1 mm)                      *)
(*   gate positions    1/GateScale  percent  (0.0005 %)                    *)
(*   flows             1/FlowScale  m3/s     (1 l/s)                       *)
(*   volumes           1/VolumeScale m3      (1 l)                         *)
(*   power             1/PowerScale kW       (0.1 kW)                      *)
(*   energy            power unit * ms       (1 kWh = 36000000 units)      *)
(*   hectares          1/HectareScale ha     (0.0001 ha)                    *)
(* Divisions round towards minus infinity.                                 *)
(*                                                                         *)
(* Scheduling.  JavaScript runs one callback at a time, and React commits  *)
(* the state updates of a callback and runs the effects that depend on the *)
(* changed state before the next timer callback (the timers have periods   *)
(* of 100 ms and 200 ms).  An action is therefore a handler together with  *)
(* the updater functions it queues and the effects its render triggers.    *)
(* isSimulating has no control in the dashboard; setIsSimulating is the state *)
(* setter the component declares, and the Interval Effect reacts to it.  The *)
(* same holds for config.simulationSpeed, set through setConfig.             *)
(* Date.now() values (timestamp, startTime, endTime) are abstracted: the   *)
(* order id is a sequence number and endTime is the token Stamp.           *)
(***************************************************************************)
EXTENDS Integers, Sequences, FiniteSets, Bags, TLC

VARIABLES
    mode,               \* useState<SystemMode>, line 27
    isSimulating,       \* useState<boolean>, line 28
    config,             \* useState<SimulationConfig>, line 31
    systemState,        \* useState<SystemState>, line 37
    activeOrder,        \* useState<WateringOrder | null>, line 54
    lastCompletedOrder, \* useState<WateringOrder | null>, line 55
    activeOrderRef,     \* useRef, line 58
    intervalRef,        \* the scheduled tick interval and the closure it calls, line 93
    tickIntervals,      \* the live intervals set by setInterval(tickSimulation, ...), line 283
    holdTimerRef,       \* the hold-repeat interval and its direction, line 94
    holdIntervals,      \* the live intervals set by setInterval in startManualMove, line 112
    orderSeq,           \* orders started so far (stands for Date.now() in the id)
    stepsLeft           \* callbacks the bounded exploration still allows

vars == <<mode, isSimulating, config, systemState, activeOrder, lastCompletedOrder,
          activeOrderRef, intervalRef, tickIntervals, holdTimerRef, holdIntervals,
          orderSeq, stepsLeft>>

-----------------------------------------------------------------------------
\* Units of the fixed-point representation.
LevelScale == 10000
GateScale == 2000
FlowScale == 1000
VolumeScale == 1000
PowerScale == 10
HectareScale == 10000

\* Bounds of the exploration.
MaxSteps == 6
MaxStepsAny == 2

-----------------------------------------------------------------------------
\* Constants for Simulation Physics (lines 12-23).
MAX_WATER_LEVEL == 12 * LevelScale
CRITICAL_THRESHOLD == (95 * LevelScale) \div 10
WARNING_THRESHOLD == 8 * LevelScale
RESERVOIR_AREA == 1000
GATE_SPEED == 2 * GateScale
MAX_GATE_HEIGHT_CM == 200
MOTOR_POWER_ACTIVE == 10 * PowerScale
MOTOR_POWER_STANDBY == (2 * PowerScale) \div 10
ELEC_RATE_UZS == 1000
FULL_OPEN == 100 * GateScale

Min(a, b) == IF a < b THEN a ELSE b
Max(a, b) == IF a > b THEN a ELSE b
Abs(a) == IF a < 0 THEN -a ELSE a

\* null of a WateringOrder | null slot and of a timer ref.
NoOrder == [status |-> "null"]
NoTimer == [running |-> FALSE]

SystemMode == {"AUTO", "MANUAL"}
GateStatus == {"OPEN", "CLOSED", "OPENING", "CLOSING", "PARTIALLY OPEN"}
Stamp == "Date.now()"

-----------------------------------------------------------------------------
\* Math.sqrt on integers: the largest r with r*r <= n.
RECURSIVE SqrtSearch(_, _, _)
SqrtSearch(n, lo, hi) ==
    IF lo >= hi THEN lo
    ELSE LET mid == (lo + hi + 1) \div 2
         IN  IF mid * mid <= n THEN SqrtSearch(n, mid, hi)
             ELSE SqrtSearch(n, lo, mid - 1)

ISqrt(n) == SqrtSearch(n, 0, 46340)

\* Math.pow(h, 1.5) for a depth h in level units: h^1.5 [m^1.5] * 10^7,
\* computed as h * sqrt(h) with sqrt(h [m]) in thousandths.
Pow15(h) == h * ISqrt(h * (1000000 \div LevelScale))

\* (2/3) * Cd * b * Math.sqrt(2 * g), in 1/10000, with Cd = 0.6, b = 3.0 and
\* g = 9.81 (lines 214-216, 233).
OrificeCoeff == (2 * 6 * 3 * ISqrt(2 * 981 * 10000)) \div 3

\* 1. Calculate Inflow (lines 154-157). noise stands for (Math.random() - 0.5) * 2.
Inflow(prev, noise) ==
    LET baseInflow == 36 * FlowScale
        rainEffect == IF prev.isRaining THEN (prev.rainfallIntensity * 3) \div 10 ELSE 0
    IN  Max(0, baseInflow + rainEffect + noise)

\* ControlLogic closing without the clamp at 0.
ControlLogicNoClamp(prev, ref, m, targetLevel) ==
    IF ref # NoOrder THEN FULL_OPEN
    ELSE IF m = "AUTO" THEN
        LET error == prev.waterLevel - targetLevel
        IN  IF 10 * error > 2 * LevelScale
               THEN Min(FULL_OPEN, prev.gateOpening + error * ((5 * GateScale) \div LevelScale))
            ELSE IF 10 * error < -2 * LevelScale
               THEN prev.gateOpening - 2 * GateScale
            ELSE prev.gateOpening
    ELSE prev.targetGateOpening

\* ControlLogic asking the mode before the order.
ControlLogicModeFirst(prev, ref, m, targetLevel) ==
    IF m = "AUTO" THEN
        LET error == prev.waterLevel - targetLevel
        IN  IF 10 * error > 2 * LevelScale
               THEN Min(FULL_OPEN, prev.gateOpening + error * ((5 * GateScale) \div LevelScale))
            ELSE IF 10 * error < -2 * LevelScale
               THEN Max(0, prev.gateOpening - 2 * GateScale)
            ELSE prev.gateOpening
    ELSE IF ref # NoOrder THEN FULL_OPEN
    ELSE prev.targetGateOpening

\* ControlLogic opening from the previous target instead of the gate position.
ControlLogicFromTarget(prev, ref, m, targetLevel) ==
    IF ref # NoOrder THEN FULL_OPEN
    ELSE IF m = "AUTO" THEN
        LET error == prev.waterLevel - targetLevel
        IN  IF 10 * error > 2 * LevelScale
               THEN Min(FULL_OPEN,
                        prev.targetGateOpening + error * ((5 * GateScale) \div LevelScale))
            ELSE IF 10 * error < -2 * LevelScale
               THEN Max(0, prev.gateOpening - 2 * GateScale)
            ELSE prev.gateOpening
    ELSE prev.targetGateOpening

\* ControlLogic closing in proportion to the error.
ControlLogicProportionalClose(prev, ref, m, targetLevel) ==
    IF ref # NoOrder THEN FULL_OPEN
    ELSE IF m = "AUTO" THEN
        LET error == prev.waterLevel - targetLevel
        IN  IF 10 * error > 2 * LevelScale
               THEN Min(FULL_OPEN, prev.gateOpening + error * ((5 * GateScale) \div LevelScale))
            ELSE IF 10 * error < -2 * LevelScale
               THEN Max(0, prev.gateOpening + error * ((5 * GateScale) \div LevelScale))
            ELSE prev.gateOpening
    ELSE prev.targetGateOpening

\* ControlLogic keeping the target, not the position, inside the dead-band.
ControlLogicDeadBandKeepsTarget(prev, ref, m, targetLevel) ==
    IF ref # NoOrder THEN FULL_OPEN
    ELSE IF m = "AUTO" THEN
        LET error == prev.waterLevel - targetLevel
        IN  IF 10 * error > 2 * LevelScale
               THEN Min(FULL_OPEN, prev.gateOpening + error * ((5 * GateScale) \div LevelScale))
            ELSE IF 10 * error < -2 * LevelScale
               THEN Max(0, prev.gateOpening - 2 * GateScale)
            ELSE prev.targetGateOpening
    ELSE prev.targetGateOpening

\* ControlLogic holding the gate position, not the target, in MANUAL.
ControlLogicManualFromGate(prev, ref, m, targetLevel) ==
    IF ref # NoOrder THEN FULL_OPEN
    ELSE IF m = "AUTO" THEN
        LET error == prev.waterLevel - targetLevel
        IN  IF 10 * error > 2 * LevelScale
               THEN Min(FULL_OPEN, prev.gateOpening + error * ((5 * GateScale) \div LevelScale))
            ELSE IF 10 * error < -2 * LevelScale
               THEN Max(0, prev.gateOpening - 2 * GateScale)
            ELSE prev.gateOpening
    ELSE prev.gateOpening

\* ControlLogic running the AUTO law in both modes.
ControlLogicIgnoresMode(prev, ref, m, targetLevel) ==
    IF ref # NoOrder THEN FULL_OPEN
    ELSE LET error == prev.waterLevel - targetLevel
         IN  IF 10 * error > 2 * LevelScale
                THEN Min(FULL_OPEN, prev.gateOpening + error * ((5 * GateScale) \div LevelScale))
             ELSE IF 10 * error < -2 * LevelScale
                THEN Max(0, prev.gateOpening - 2 * GateScale)
             ELSE prev.gateOpening

\* 2. Control Logic (lines 159-175): the next target of the gate. ref is
\* activeOrderRef.current; m and targetLevel are the mode and the setpoint the
\* tick closure captured.
ControlLogic(prev, ref, m, targetLevel) ==
    IF ref # NoOrder THEN FULL_OPEN
    ELSE IF m = "AUTO" THEN
        LET error == prev.waterLevel - targetLevel
        IN  IF 10 * error > 2 * LevelScale
               THEN Min(FULL_OPEN, prev.gateOpening + error * ((5 * GateScale) \div LevelScale))
            ELSE IF 10 * error < -2 * LevelScale
               THEN Max(0, prev.gateOpening - 2 * GateScale)
            ELSE prev.gateOpening
    ELSE prev.targetGateOpening

\* MoveGate setting the gate onto the target at once.
MoveGateJump(gateOpening, nextTargetGate) ==
    [gateOpening |-> nextTargetGate, isMoving |-> gateOpening # nextTargetGate]

\* MoveGate without the snap onto a target less than a step away.
MoveGateNoSnap(gateOpening, nextTargetGate) ==
    IF gateOpening = nextTargetGate
       THEN [gateOpening |-> nextTargetGate, isMoving |-> FALSE]
    ELSE IF gateOpening < nextTargetGate
       THEN [gateOpening |-> gateOpening + GATE_SPEED, isMoving |-> TRUE]
    ELSE [gateOpening |-> gateOpening - GATE_SPEED, isMoving |-> TRUE]

\* MoveGate reporting a snap that changes the position as motion.
MoveGateSnapMoves(gateOpening, nextTargetGate) ==
    IF Abs(gateOpening - nextTargetGate) < GATE_SPEED
       THEN [gateOpening |-> nextTargetGate, isMoving |-> gateOpening # nextTargetGate]
    ELSE IF gateOpening < nextTargetGate
       THEN [gateOpening |-> gateOpening + GATE_SPEED, isMoving |-> TRUE]
    ELSE [gateOpening |-> gateOpening - GATE_SPEED, isMoving |-> TRUE]

\* 3. Physics: Move Gate towards Target (lines 177-190).
MoveGate(gateOpening, nextTargetGate) ==
    IF Abs(gateOpening - nextTargetGate) < GATE_SPEED
       THEN [gateOpening |-> nextTargetGate, isMoving |-> FALSE]
    ELSE IF gateOpening < nextTargetGate
       THEN [gateOpening |-> gateOpening + GATE_SPEED, isMoving |-> TRUE]
    ELSE [gateOpening |-> gateOpening - GATE_SPEED, isMoving |-> TRUE]

\* DetermineStatus testing the end positions before the direction.
DetermineStatusEndsFirst(prevGateOpening, nextGateOpening) ==
    IF nextGateOpening = 0 THEN "CLOSED"
    ELSE IF nextGateOpening = FULL_OPEN THEN "OPEN"
    ELSE IF nextGateOpening > prevGateOpening THEN "OPENING"
    ELSE IF nextGateOpening < prevGateOpening THEN "CLOSING"
    ELSE "PARTIALLY OPEN"

\* Determine Status (lines 192-197).
DetermineStatus(prevGateOpening, nextGateOpening) ==
    IF nextGateOpening > prevGateOpening THEN "OPENING"
    ELSE IF nextGateOpening < prevGateOpening THEN "CLOSING"
    ELSE IF nextGateOpening = 0 THEN "CLOSED"
    ELSE IF nextGateOpening = FULL_OPEN THEN "OPEN"
    ELSE "PARTIALLY OPEN"

\* 4. Power Consumption Logic (lines 199-207).
MotorPower(isMoving) == IF isMoving THEN MOTOR_POWER_ACTIVE ELSE MOTOR_POWER_STANDBY

\* EnergyConsumed charging the standby power whatever the motor does.
EnergyConsumedStandby(currentPower, simulationSpeed) == MOTOR_POWER_STANDBY * simulationSpeed

EnergyConsumed(currentPower, simulationSpeed) == currentPower * simulationSpeed

TotalCost(totalEnergy) == totalEnergy * ELEC_RATE_UZS

\* 5. Calculate Outflow (lines 209-234): the large rectangular orifice.
GateHeight(gateOpening) ==
    (gateOpening * MAX_GATE_HEIGHT_CM) \div ((FULL_OPEN \div LevelScale) * 100)

\* Outflow without the guard on the water level.
OutflowNoLevelGuard(waterLevel, gateOpening) ==
    LET currentGateHeightM == GateHeight(gateOpening)
        h2 == waterLevel
        h1 == Max(0, waterLevel - currentGateHeightM)
    IN  IF 100 * currentGateHeightM > LevelScale
           THEN (OrificeCoeff * ((Pow15(h2) - Pow15(h1)) \div 10000)) \div (100000000 \div (10 * FlowScale))
        ELSE 0

Outflow(waterLevel, gateOpening) ==
    LET currentGateHeightM == GateHeight(gateOpening)
        h2 == waterLevel
        h1 == Max(0, waterLevel - currentGateHeightM)
    IN  IF 100 * waterLevel > LevelScale /\ 100 * currentGateHeightM > LevelScale
           THEN (OrificeCoeff * ((Pow15(h2) - Pow15(h1)) \div 10000)) \div (100000000 \div (10 * FlowScale))
        ELSE 0

\* UpdateWaterLevel without the clamp at MAX_WATER_LEVEL.
UpdateWaterLevelNoMax(waterLevel, currentInflow, currentOutflow, simulationSpeed) ==
    LET netFlow == currentInflow - currentOutflow
        dH == (netFlow * simulationSpeed * (LevelScale \div 1000))
                  \div (RESERVOIR_AREA * FlowScale)
    IN  Max(0, waterLevel + dH)

\* 6. Update Water Level (lines 236-239).
UpdateWaterLevel(waterLevel, currentInflow, currentOutflow, simulationSpeed) ==
    LET netFlow == currentInflow - currentOutflow
        dH == (netFlow * simulationSpeed * (LevelScale \div 1000))
                  \div (RESERVOIR_AREA * FlowScale)
    IN  Min(MAX_WATER_LEVEL, Max(0, waterLevel + dH))

\* 7. Calculate Downstream Level (lines 241-246).
Downstream(downstreamLevel, currentOutflow) ==
    LET targetDownstream == LevelScale \div 2 + (currentOutflow * 4 * (LevelScale \div FlowScale)) \div 100
    IN  downstreamLevel + (targetDownstream - downstreamLevel) \div 10

\* OrderProgress applied twice for one tick.
OrderProgressTwice(curr, currentOutflow, currentPower, simulationSpeed) ==
    IF curr = NoOrder THEN NoOrder
    ELSE [curr EXCEPT
            !.deliveredVolume = @ + 2 * ((currentOutflow * simulationSpeed) \div ((1000 * FlowScale) \div VolumeScale)),
            !.powerConsumed = @ + 2 * currentPower * simulationSpeed]

\* 8. Update Active Order Progress (lines 248-261): the updater handed to
\* setActiveOrder.
OrderProgress(curr, currentOutflow, currentPower, simulationSpeed) ==
    IF curr = NoOrder THEN NoOrder
    ELSE [curr EXCEPT
            !.deliveredVolume = @ + (currentOutflow * simulationSpeed) \div ((1000 * FlowScale) \div VolumeScale),
            !.powerConsumed = @ + currentPower * simulationSpeed]

\* The updater handed to setSystemState by tickSimulation (lines 152-277).
TickState(prev, ref, m, cfg, noise) ==
    LET currentInflow == Inflow(prev, noise)
        nextTargetGate == ControlLogic(prev, ref, m, cfg.targetLevel)
        moved == MoveGate(prev.gateOpening, nextTargetGate)
        status == DetermineStatus(prev.gateOpening, moved.gateOpening)
        currentPower == MotorPower(moved.isMoving)
        newTotalEnergy == prev.totalEnergy + EnergyConsumed(currentPower, cfg.simulationSpeed)
        currentOutflow == Outflow(prev.waterLevel, moved.gateOpening)
    IN  [prev EXCEPT
            !.inflowRate = currentInflow,
            !.outflowRate = currentOutflow,
            !.waterLevel = UpdateWaterLevel(prev.waterLevel, currentInflow, currentOutflow,
                                            cfg.simulationSpeed),
            !.downstreamLevel = Downstream(prev.downstreamLevel, currentOutflow),
            !.gateOpening = moved.gateOpening,
            !.targetGateOpening = nextTargetGate,
            !.gateStatus = status,
            !.currentPower = currentPower,
            !.totalEnergy = newTotalEnergy,
            !.totalCost = TotalCost(newTotalEnergy)]

-----------------------------------------------------------------------------
\* The effects with dependency [activeOrder] (lines 59-70), run on the value ao
\* that a handler's updates leave in the slot: the Order Completion Check moves
\* a fulfilled order to lastCompletedOrder and clears the slot, and the ref
\* effect copies the slot to activeOrderRef.current.
\* IsFulfilled asking for more than the target.
IsFulfilledStrict(ao) ==
    /\ ao # NoOrder
    /\ ao.deliveredVolume > ao.targetVolume
    /\ ao.status = "ACTIVE"

IsFulfilled(ao) ==
    /\ ao # NoOrder
    /\ ao.deliveredVolume >= ao.targetVolume
    /\ ao.status = "ACTIVE"

CompletionCheck(ao) ==
    IF IsFulfilled(ao)
       THEN [active |-> NoOrder,
             last |-> [ao EXCEPT !.status = "COMPLETED", !.endTime = Stamp]]
    ELSE [active |-> ao, last |-> lastCompletedOrder]

\* The ref effect missing: the ref keeps the value it had.
RefSyncNever(ao) == activeOrderRef

RefSync(ao) == ao

ActiveOrderEffects(ao) ==
    /\ activeOrder' = CompletionCheck(ao).active
    /\ lastCompletedOrder' = CompletionCheck(ao).last
    /\ activeOrderRef' = RefSync(CompletionCheck(ao).active)

\* The Interval Effect (lines 280-288) after a render with mode m and config
\* cfg: the old interval is cleared and, while simulating, a new one is set
\* whose callback is the tickSimulation closure over m and cfg (line 278).
\* IntervalEffect whose closure keeps the mode of the first render.
IntervalEffectFirstMode(simulating, m, cfg) ==
    IF simulating
       THEN [running |-> TRUE, period |-> cfg.simulationSpeed, mode |-> "AUTO", config |-> cfg]
    ELSE NoTimer

\* IntervalEffect that keeps the period of the first render.
IntervalEffectFirstPeriod(simulating, m, cfg) ==
    IF simulating
       THEN [running |-> TRUE, period |-> 200, mode |-> m, config |-> cfg]
    ELSE NoTimer

IntervalEffect(simulating, m, cfg) ==
    IF simulating
       THEN [running |-> TRUE, period |-> cfg.simulationSpeed, mode |-> m, config |-> cfg]
    ELSE NoTimer

\* The cleanup of the Interval Effect (lines 285-287): clearInterval on the
\* handle in intervalRef.current takes that interval out of the live ones; a
\* null or already cleared handle clears nothing.
\* IntervalCleanup that clears nothing.
IntervalCleanupNone(timers, ref) == timers

IntervalCleanup(timers, ref) ==
    IF ref.running THEN timers (-) SetToBag({ref}) ELSE timers

\* The Interval Effect not run again while an interval is live.
RunIntervalEffectOnce(simulating, m, cfg) ==
    IF simulating /\ intervalRef.running
       THEN UNCHANGED <<intervalRef, tickIntervals>>
    ELSE /\ intervalRef' = IntervalEffect(simulating, m, cfg)
         /\ tickIntervals' = IntervalCleanup(tickIntervals, intervalRef)
                                 (+) (IF simulating THEN SetToBag({intervalRef'}) ELSE EmptyBag)

\* A re-run of the Interval Effect: the cleanup of the previous run, then the
\* body.
RunIntervalEffect(simulating, m, cfg) ==
    /\ intervalRef' = IntervalEffect(simulating, m, cfg)
    /\ tickIntervals' = IntervalCleanup(tickIntervals, intervalRef)
                            (+) (IF simulating THEN SetToBag({intervalRef'}) ELSE EmptyBag)

\* clearInterval on the handle in holdTimerRef.current (lines 101, 124).
\* ClearHold that clears nothing.
ClearHoldNone(timers, ref) == timers

ClearHold(timers, ref) ==
    IF ref # "null" THEN timers (-) SetToBag({ref}) ELSE timers

\* handleStartOrder's new order (lines 132-143).
NewOrder(id, clientName, hectares) ==
    [id |-> id,
     clientName |-> clientName,
     hectares |-> hectares,
     targetVolume |-> hectares * ((1000 * VolumeScale) \div HectareScale),
     deliveredVolume |-> 0,
     startTime |-> Stamp,
     endTime |-> "undefined",
     status |-> "ACTIVE",
     powerConsumed |-> 0,
     waterCost |-> 0]

\* JogTarget stepping from the gate position instead of the target.
JogTargetFromGate(prev, direction, step) ==
    IF direction = "OPEN"
       THEN [prev EXCEPT !.targetGateOpening = Min(FULL_OPEN, prev.gateOpening + step * GateScale)]
    ELSE [prev EXCEPT !.targetGateOpening = Max(0, prev.gateOpening - step * GateScale)]

\* JogTarget with the step of the press also for the repeats.
JogTargetSameStep(prev, direction, step) ==
    IF direction = "OPEN"
       THEN [prev EXCEPT !.targetGateOpening = Min(FULL_OPEN, @ + GateScale)]
    ELSE [prev EXCEPT !.targetGateOpening = Max(0, @ - GateScale)]

\* One jog step of startManualMove (lines 104-109 with step 1, 113-118 with step 2).
JogTarget(prev, direction, step) ==
    IF direction = "OPEN"
       THEN [prev EXCEPT !.targetGateOpening = Min(FULL_OPEN, @ + step * GateScale)]
    ELSE [prev EXCEPT !.targetGateOpening = Max(0, @ - step * GateScale)]

-----------------------------------------------------------------------------
\* Inputs.
Noise == {-FlowScale, FlowScale - 1}
TargetLevels == {4 * LevelScale, 5 * LevelScale, 13 * LevelScale}
ClientNames == {"Javlon Dehqon", "Client B"}
Hectares == {-2, 0, 2, 50 * HectareScale}
Directions == {"OPEN", "CLOSE"}
SimulationSpeeds == {100, 200}

\* The state after construction (lines 27-58, 93-94) and the first effects.
InitialSystemState ==
    [waterLevel |-> 5 * LevelScale,
     downstreamLevel |-> (8 * LevelScale) \div 10,
     inflowRate |-> 36 * FlowScale,
     outflowRate |-> 0,
     gateOpening |-> 0,
     targetGateOpening |-> 0,
     gateStatus |-> "CLOSED",
     isRaining |-> FALSE,
     rainfallIntensity |-> 0,
     currentPower |-> MOTOR_POWER_STANDBY,
     totalEnergy |-> 0,
     totalCost |-> 0]

InitialConfig == [targetLevel |-> 5 * LevelScale, simulationSpeed |-> 200]

Init ==
    /\ mode = "AUTO"
    /\ isSimulating = TRUE
    /\ config = InitialConfig
    /\ systemState = InitialSystemState
    /\ activeOrder = NoOrder
    /\ lastCompletedOrder = NoOrder
    /\ activeOrderRef = NoOrder
    /\ intervalRef = IntervalEffect(TRUE, "AUTO", InitialConfig)
    /\ tickIntervals = SetToBag({intervalRef})
    /\ holdTimerRef = "null"
    /\ holdIntervals = EmptyBag
    /\ orderSeq = 0
    /\ stepsLeft = MaxSteps

\* Snapshots a session can be resumed from: the same fields, the water level,
\* the gate and its target placed on and next to the limits and thresholds of
\* the tick, with an order one litre short of its target.
AnyLevels ==
    {0, LevelScale \div 100, 5 * LevelScale, (52 * LevelScale) \div 10 + 1,
     MAX_WATER_LEVEL - 10, MAX_WATER_LEVEL}
AnyGates == {0, GateScale \div 2, 3 * GateScale, FULL_OPEN - (3 * GateScale) \div 2, FULL_OPEN}
AnyTargets == {0, 2 * GateScale, FULL_OPEN}
AnyStatus(gateOpening) ==
    IF gateOpening = 0 THEN {"CLOSED", "CLOSING"}
    ELSE IF gateOpening = FULL_OPEN THEN {"OPEN", "OPENING"}
    ELSE {"PARTIALLY OPEN", "OPENING", "CLOSING"}
AnyOrders ==
    LET o == NewOrder(1, "Javlon Dehqon", 50 * HectareScale)
    IN  {NoOrder, [o EXCEPT !.deliveredVolume = o.targetVolume - 1, !.powerConsumed = 36000]}

InitAny ==
    \/ Init
    \/ /\ mode \in SystemMode
       /\ isSimulating = TRUE
       /\ config = InitialConfig
       /\ \E level \in AnyLevels, gate \in AnyGates, target \in AnyTargets :
            \E status \in AnyStatus(gate) :
               systemState = [InitialSystemState EXCEPT
                                !.waterLevel = level,
                                !.gateOpening = gate,
                                !.targetGateOpening = target,
                                !.gateStatus = status,
                                !.currentPower = IF status \in {"OPENING", "CLOSING"}
                                                    THEN MOTOR_POWER_ACTIVE
                                                 ELSE MOTOR_POWER_STANDBY]
       /\ activeOrder \in AnyOrders
       /\ lastCompletedOrder = NoOrder
       /\ activeOrderRef = activeOrder
       /\ intervalRef = IntervalEffect(TRUE, mode, config)
       /\ tickIntervals = SetToBag({intervalRef})
       /\ holdTimerRef = "null"
       /\ holdIntervals = EmptyBag
       /\ orderSeq = IF activeOrder = NoOrder THEN 0 ELSE 1
       /\ stepsLeft = MaxStepsAny

-----------------------------------------------------------------------------
\* Every action is one callback; Step counts it against the exploration bound.
Step ==
    /\ stepsLeft > 0
    /\ stepsLeft' = stepsLeft - 1

\* A live tick interval fires: tickSimulation (lines 151-278) as the closure
\* the interval was set with, the updaters it queues and the effects of the
\* render.
tickSimulation(noise) ==
    /\ Step
    /\ UNCHANGED <<mode, isSimulating, config, intervalRef, tickIntervals, holdTimerRef, holdIntervals,
                   orderSeq>>
    /\ \E timer \in BagToSet(tickIntervals) :
          LET next == TickState(systemState, activeOrderRef, timer.mode, timer.config, noise)
          IN  /\ systemState' = next
              /\ ActiveOrderEffects(
                   IF activeOrderRef # NoOrder
                      THEN OrderProgress(activeOrder, next.outflowRate, next.currentPower,
                                         timer.config.simulationSpeed)
                   ELSE activeOrder)

\* onMouseDown of the OPEN / CLOSE button: startManualMove (lines 97-120).
startManualMove(direction) ==
    /\ Step
    /\ IF mode # "MANUAL"
          THEN UNCHANGED <<systemState, holdTimerRef, holdIntervals>>
       ELSE /\ systemState' = JogTarget(systemState, direction, 1)
            /\ holdTimerRef' = direction
            /\ holdIntervals' = ClearHold(holdIntervals, holdTimerRef) (+) SetToBag({direction})
    /\ UNCHANGED <<mode, isSimulating, config, activeOrder, lastCompletedOrder,
                   activeOrderRef, intervalRef, tickIntervals, orderSeq>>

\* The hold interval fires (lines 112-119).
holdTimerTick ==
    /\ Step
    /\ \E direction \in BagToSet(holdIntervals) :
          systemState' = JogTarget(systemState, direction, 2)
    /\ UNCHANGED <<mode, isSimulating, config, activeOrder, lastCompletedOrder,
                   activeOrderRef, intervalRef, tickIntervals, holdTimerRef, holdIntervals, orderSeq>>

\* onMouseUp / onMouseLeave: stopManualMove (lines 122-127).
stopManualMove ==
    /\ Step
    /\ holdTimerRef' = "null"
    /\ holdIntervals' = ClearHold(holdIntervals, holdTimerRef)
    /\ UNCHANGED <<mode, isSimulating, config, systemState, activeOrder,
                   lastCompletedOrder, activeOrderRef, intervalRef, tickIntervals, orderSeq>>

\* onStartOrder: handleStartOrder (lines 131-144) and the effects of the render.
handleStartOrder(clientName, hectares) ==
    /\ Step
    /\ ActiveOrderEffects(NewOrder(orderSeq + 1, clientName, hectares))
    /\ orderSeq' = orderSeq + 1
    /\ UNCHANGED <<mode, isSimulating, config, systemState, intervalRef, tickIntervals,
                   holdTimerRef, holdIntervals>>

\* handleCancelOrder keeping the cancelled order as the last finished one.
handleCancelOrderRetained ==
    /\ Step
    /\ activeOrder' = NoOrder
    /\ activeOrderRef' = NoOrder
    /\ lastCompletedOrder' = IF activeOrder # NoOrder
                                THEN [activeOrder EXCEPT !.status = "CANCELLED"]
                             ELSE lastCompletedOrder
    /\ UNCHANGED <<mode, isSimulating, config, systemState, intervalRef, tickIntervals,
                   holdTimerRef, holdIntervals, orderSeq>>

\* onCancelOrder: handleCancelOrder (lines 146-148) and the effects of the render.
handleCancelOrder ==
    /\ Step
    /\ ActiveOrderEffects(NoOrder)
    /\ UNCHANGED <<mode, isSimulating, config, systemState, intervalRef, tickIntervals,
                   holdTimerRef, holdIntervals, orderSeq>>

\* The Manual Control toggle (line 395) and the Interval Effect of the render.
toggleMode ==
    /\ Step
    /\ mode' = IF mode = "AUTO" THEN "MANUAL" ELSE "AUTO"
    /\ RunIntervalEffect(isSimulating, mode', config)
    /\ UNCHANGED <<isSimulating, config, systemState, activeOrder, lastCompletedOrder,
                   activeOrderRef, holdTimerRef, holdIntervals, orderSeq>>

\* The Radar Control Level slider (line 374) and the Interval Effect of the
\* render; a value equal to the current one changes no state and renders nothing.
setTargetLevel(targetLevel) ==
    /\ Step
    /\ config' = [config EXCEPT !.targetLevel = targetLevel]
    /\ IF config' = config
          THEN UNCHANGED <<intervalRef, tickIntervals>>
       ELSE RunIntervalEffect(isSimulating, mode, config')
    /\ UNCHANGED <<mode, isSimulating, systemState, activeOrder, lastCompletedOrder,
                   activeOrderRef, holdTimerRef, holdIntervals, orderSeq>>

\* setConfig with a new simulationSpeed (lines 31-34) and the Interval Effect
\* of the render; the value the config already has changes nothing.
setSimulationSpeed(simulationSpeed) ==
    /\ Step
    /\ config' = [config EXCEPT !.simulationSpeed = simulationSpeed]
    /\ IF config' = config
          THEN UNCHANGED <<intervalRef, tickIntervals>>
       ELSE RunIntervalEffect(isSimulating, mode, config')
    /\ UNCHANGED <<mode, isSimulating, systemState, activeOrder, lastCompletedOrder,
                   activeOrderRef, holdTimerRef, holdIntervals, orderSeq>>

\* setIsSimulating (line 28) and the Interval Effect of the render; setting the
\* value the state already has renders nothing.
setIsSimulating(value) ==
    /\ Step
    /\ isSimulating' = value
    /\ IF value = isSimulating
          THEN UNCHANGED <<intervalRef, tickIntervals>>
       ELSE RunIntervalEffect(value, mode, config)
    /\ UNCHANGED <<mode, config, systemState, activeOrder, lastCompletedOrder,
                   activeOrderRef, holdTimerRef, holdIntervals, orderSeq>>

Next ==
    \/ \E noise \in Noise : tickSimulation(noise)
    \/ \E direction \in Directions : startManualMove(direction)
    \/ holdTimerTick
    \/ stopManualMove
    \/ \E clientName \in ClientNames, hectares \in Hectares :
           handleStartOrder(clientName, hectares)
    \/ handleCancelOrder
    \/ toggleMode
    \/ \E targetLevel \in TargetLevels : setTargetLevel(targetLevel)
    \/ \E simulationSpeed \in SimulationSpeeds : setSimulationSpeed(simulationSpeed)
    \/ \E value \in BOOLEAN : setIsSimulating(value)

Spec == Init /\ [][Next]_vars

SpecAny == InitAny /\ [][Next]_vars

-----------------------------------------------------------------------------
\* Steps, named by the handler that takes them.
TickAction == \E noise \in Noise : tickSimulation(noise)
StartOrderStep ==
    \E clientName \in ClientNames, hectares \in Hectares : handleStartOrder(clientName, hectares)

\* The steps of tickSimulation are the steps that change totalEnergy (C9).
TickStep == systemState'.totalEnergy # systemState.totalEnergy

\* A tick has run since the snapshot the behaviour started from (every
\* behaviour starts with totalEnergy = 0 and every tick adds energy).
Ticked == systemState.totalEnergy > 0

-----------------------------------------------------------------------------
\* C1: in every reachable state 0 <= waterLevel <= MAX_WATER_LEVEL, whatever
\* the sign and size of inflow minus outflow in a tick.
C1_WaterLevelInRange ==
    /\ systemState.waterLevel >= 0
    /\ systemState.waterLevel <= MAX_WATER_LEVEL

\* A tick whose net inflow would have carried the level over the maximum.
C1_Witness ==
    /\ Ticked
    /\ systemState.waterLevel = MAX_WATER_LEVEL
    /\ systemState.inflowRate - systemState.outflowRate >= FlowScale

\* C2: in every reachable state gateOpening and targetGateOpening lie in
\* [0, 100], for every interleaving of ticks, jog steps and mode toggles and
\* for every setpoint, also one outside [0, 10] m.
C2_GateInRange ==
    /\ systemState.gateOpening >= 0
    /\ systemState.gateOpening <= FULL_OPEN
    /\ systemState.targetGateOpening >= 0
    /\ systemState.targetGateOpening <= FULL_OPEN

\* An AUTO tick under a setpoint above 10 m that closed a gate less than 2 %
\* open: the target gateOpening - 2 was clamped to 0.
C2_Witness ==
    /\ Ticked
    /\ config.targetLevel > 10 * LevelScale
    /\ mode = "AUTO"
    /\ activeOrder = NoOrder
    /\ systemState.gateStatus = "CLOSING"
    /\ systemState.gateOpening = 0
    /\ systemState.targetGateOpening = 0

\* C3: at most one order is ACTIVE, and a handleStartOrder request made while
\* an order is active leaves that order untouched and in the active slot.
C3_StartWhileActiveRejected ==
    [][/\ lastCompletedOrder'.status # "ACTIVE"
       /\ (StartOrderStep /\ activeOrder # NoOrder) => activeOrder' = activeOrder]_vars

\* C4: an order of h hectares has targetVolume = 1000 * h and is moved from the
\* active slot to lastCompletedOrder (COMPLETED, endTime set) exactly when its
\* deliveredVolume reaches targetVolume: no order in lastCompletedOrder has
\* delivered less than its target, and no order that has delivered its target
\* is in the active slot or in activeOrderRef when a tick reads them.
C4_CompletedExactlyWhenDelivered ==
    /\ activeOrder # NoOrder =>
          /\ activeOrder.status = "ACTIVE"
          /\ activeOrder.targetVolume = activeOrder.hectares * ((1000 * VolumeScale) \div HectareScale)
          /\ activeOrder.deliveredVolume < activeOrder.targetVolume
    /\ lastCompletedOrder # NoOrder =>
          /\ lastCompletedOrder.status = "COMPLETED"
          /\ lastCompletedOrder.endTime = Stamp
          /\ lastCompletedOrder.targetVolume
                = lastCompletedOrder.hectares * ((1000 * VolumeScale) \div HectareScale)
          /\ lastCompletedOrder.deliveredVolume >= lastCompletedOrder.targetVolume
    /\ activeOrderRef = activeOrder

\* An order completed by the volume its ticks delivered.
C4_Witness ==
    /\ lastCompletedOrder # NoOrder
    /\ lastCompletedOrder.hectares > 0
    /\ lastCompletedOrder.deliveredVolume > 0
    /\ activeOrder = NoOrder

\* C5: every tick that runs while an order is active leaves targetGateOpening
\* at 100, in AUTO and in MANUAL, whatever the level, setpoint and jogged target.
C5_OrderForcesFullOpen ==
    [][(TickStep /\ activeOrder # NoOrder) => systemState'.targetGateOpening = FULL_OPEN]_vars

\* A MANUAL tick under an order that is still active, the gate on its way up.
C5_Witness ==
    /\ Ticked
    /\ mode = "MANUAL"
    /\ activeOrder # NoOrder
    /\ systemState.targetGateOpening = FULL_OPEN
    /\ systemState.gateOpening < FULL_OPEN
    /\ systemState.gateStatus = "OPENING"

\* C6: a tick changes gateOpening by at most GATE_SPEED.
C6_GateStepBounded ==
    [][TickStep => Abs(systemState'.gateOpening - systemState.gateOpening) <= GATE_SPEED]_vars

\* A tick that moved the gate by a full step towards a target further away.
C6_Witness ==
    /\ Ticked
    /\ systemState.gateStatus \in {"OPENING", "CLOSING"}
    /\ systemState.currentPower = MOTOR_POWER_ACTIVE
    /\ systemState.gateOpening # systemState.targetGateOpening

\* C7: a tick that leaves targetGateOpening at its value T moves the gate
\* towards T by GATE_SPEED, or onto T when less than GATE_SPEED remains, and
\* never across T; so over ticks with T held the distance |gateOpening - T|
\* never grows, is 0 after ceil(distance / GATE_SPEED) ticks and stays 0.
C7_ConvergesToHeldTarget ==
    [][(TickStep /\ systemState'.targetGateOpening = systemState.targetGateOpening) =>
          LET T == systemState.targetGateOpening
              d == Abs(systemState.gateOpening - T)
          IN  /\ Abs(systemState'.gateOpening - T) = IF d < GATE_SPEED THEN 0 ELSE d - GATE_SPEED
              /\ systemState.gateOpening <= T => systemState'.gateOpening <= T
              /\ systemState.gateOpening >= T => systemState'.gateOpening >= T]_vars

\* MANUAL, target jogged to 3 %: a full step to 2 %, then the last 1 % onto it.
C7_Witness ==
    /\ mode = "MANUAL"
    /\ activeOrder = NoOrder
    /\ systemState.targetGateOpening = 3 * GateScale
    /\ systemState.gateOpening = 3 * GateScale
    /\ systemState.gateStatus = "OPENING"
    /\ systemState.totalEnergy = (MOTOR_POWER_ACTIVE + MOTOR_POWER_STANDBY) * 200

\* C8: after a tick gateStatus is decided by the gate position before and after
\* it alone: OPENING if it rose, CLOSING if it fell, else CLOSED at 0, OPEN at
\* 100 and PARTIALLY OPEN in between.
C8_StatusFromPositions ==
    [][TickStep =>
          LET before == systemState.gateOpening
              after == systemState'.gateOpening
          IN  systemState'.gateStatus =
                 CASE after > before -> "OPENING"
                   [] after < before -> "CLOSING"
                   [] after = before /\ after = 0 -> "CLOSED"
                   [] after = before /\ after # 0 /\ after = FULL_OPEN -> "OPEN"
                   [] OTHER -> "PARTIALLY OPEN"]_vars

\* A tick that closed the gate onto 0: CLOSING, not CLOSED.
C8_Witness ==
    /\ Ticked
    /\ systemState.gateOpening = 0
    /\ systemState.gateStatus = "CLOSING"

\* C9: totalCost = totalEnergy * ELEC_RATE in every state; a tick adds
\* currentPower * dt to totalEnergy, no other step changes totalEnergy or
\* totalCost, and neither ever decreases.
C9_EnergyAndCost ==
    /\ systemState.totalCost = systemState.totalEnergy * ELEC_RATE_UZS
    /\ [][/\ systemState'.totalCost = systemState'.totalEnergy * ELEC_RATE_UZS
          /\ systemState'.totalEnergy >= systemState.totalEnergy
          /\ systemState'.totalCost >= systemState.totalCost
          /\ IF TickAction
                THEN systemState'.totalEnergy = systemState.totalEnergy
                        + systemState'.currentPower * intervalRef.config.simulationSpeed
             ELSE /\ systemState'.totalEnergy = systemState.totalEnergy
                  /\ systemState'.totalCost = systemState.totalCost]_vars

\* One tick at active power, one at standby power, and a jog held meanwhile.
C9_Witness ==
    /\ systemState.totalEnergy = (MOTOR_POWER_ACTIVE + MOTOR_POWER_STANDBY) * 200
    /\ systemState.totalCost = (MOTOR_POWER_ACTIVE + MOTOR_POWER_STANDBY) * 200 * ELEC_RATE_UZS
    /\ holdTimerRef # "null"

\* C10 as claimed: after a tick currentPower is MOTOR_POWER_ACTIVE if
\* gateOpening differs from its value before the tick and MOTOR_POWER_STANDBY
\* if it does not.
C10_ActiveIffPositionChanged ==
    [][TickStep =>
          systemState'.currentPower =
             IF systemState'.gateOpening # systemState.gateOpening
                THEN MOTOR_POWER_ACTIVE ELSE MOTOR_POWER_STANDBY]_vars

\* C10 as amended: after a tick currentPower is MOTOR_POWER_ACTIVE if the gate
\* took a full step (the tick's target was GATE_SPEED or more away from the
\* previous position) and MOTOR_POWER_STANDBY otherwise, also when the gate
\* snapped onto a target less than GATE_SPEED away; no other value occurs.
C10_ActiveIffFullStep ==
    /\ systemState.currentPower \in {MOTOR_POWER_ACTIVE, MOTOR_POWER_STANDBY}
    /\ [][/\ systemState'.currentPower \in {MOTOR_POWER_ACTIVE, MOTOR_POWER_STANDBY}
          /\ TickStep =>
                systemState'.currentPower =
                   IF Abs(systemState.gateOpening - systemState'.targetGateOpening) >= GATE_SPEED
                      THEN MOTOR_POWER_ACTIVE ELSE MOTOR_POWER_STANDBY]_vars

\* A tick that snapped the gate 1 % up onto a jogged target at standby power.
C10_Witness ==
    /\ Ticked
    /\ systemState.gateStatus = "OPENING"
    /\ systemState.gateOpening = GateScale
    /\ systemState.currentPower = MOTOR_POWER_STANDBY

\* C11: an AUTO tick with no active order and error = waterLevel - targetLevel
\* above 0.2 leaves targetGateOpening at min(100, gateOpening + 5 * error),
\* gateOpening being the gate position before the tick, not its target.
C11_AutoOpensProportionally ==
    [][(/\ TickStep
        /\ mode = "AUTO"
        /\ activeOrder = NoOrder
        /\ 10 * (systemState.waterLevel - config.targetLevel) > 2 * LevelScale) =>
          systemState'.targetGateOpening =
             Min(FULL_OPEN,
                 systemState.gateOpening
                    + (systemState.waterLevel - config.targetLevel)
                         * ((5 * GateScale) \div LevelScale))]_vars

\* Setpoint 4 m under a level of 5 m: the closed gate is given the target 5 %.
C11_Witness ==
    /\ Ticked
    /\ mode = "AUTO"
    /\ activeOrder = NoOrder
    /\ config.targetLevel = 4 * LevelScale
    /\ systemState.targetGateOpening = 5 * GateScale
    /\ systemState.gateOpening = 2 * GateScale
    /\ systemState.gateStatus = "OPENING"

\* C12: an AUTO tick with no active order and error below -0.2 leaves
\* targetGateOpening at max(0, gateOpening - 2), whatever the size of the error.
C12_AutoClosesAtFixedRate ==
    [][(/\ TickStep
        /\ mode = "AUTO"
        /\ activeOrder = NoOrder
        /\ 10 * (systemState.waterLevel - config.targetLevel) < -2 * LevelScale) =>
          systemState'.targetGateOpening = Max(0, systemState.gateOpening - 2 * GateScale)]_vars

\* A level more than 1 m under the setpoint: the gate came down by 2 %, to 1 %.
C12_Witness ==
    /\ Ticked
    /\ mode = "AUTO"
    /\ activeOrder = NoOrder
    /\ systemState.waterLevel < config.targetLevel - LevelScale
    /\ systemState.targetGateOpening = GateScale
    /\ systemState.gateOpening = GateScale
    /\ systemState.gateStatus = "CLOSING"

\* C13: the outflowRate of a tick is 0 when the gate position the tick moved to
\* is 0 and when the water level the tick read is at most 0.01 m; it is never
\* negative, and it is positive only when that level and the gate height are
\* both above 0.01 m.
C13_OutflowGuarded ==
    /\ systemState.outflowRate >= 0
    /\ [][TickStep =>
            LET q == systemState'.outflowRate
            IN  /\ q >= 0
                /\ systemState'.gateOpening = 0 => q = 0
                /\ 100 * systemState.waterLevel <= LevelScale => q = 0
                /\ q > 0 => /\ 100 * systemState.waterLevel > LevelScale
                            /\ 100 * GateHeight(systemState'.gateOpening) > LevelScale]_vars

\* A tick with the gate 3 % or more open and no outflow: the level it read
\* was 0.01 m or less.
C13_Witness ==
    /\ Ticked
    /\ systemState.gateOpening >= 3 * GateScale
    /\ systemState.outflowRate = 0

\* C14: while the mode is AUTO no jog changes targetGateOpening: a press does
\* nothing and starts no hold timer, and a hold timer started in MANUAL applies
\* no step after the switch to AUTO.
C14_NoJogInAuto ==
    [][(mode = "AUTO" /\ (holdTimerTick \/ \E direction \in Directions : startManualMove(direction))) =>
          /\ systemState'.targetGateOpening = systemState.targetGateOpening
          /\ holdTimerRef' = holdTimerRef]_vars

\* C15: at most one tick interval is live at any time, and it is the one
\* intervalRef holds; none is live while the simulation is stopped.
C15_OneTickInterval ==
    /\ BagCardinality(tickIntervals) <= 1
    /\ isSimulating => tickIntervals = SetToBag({intervalRef})
    /\ ~isSimulating => tickIntervals = EmptyBag

\* The Interval Effect ran again for a new setpoint in MANUAL and a tick of the
\* one interval it left has run.
C15_Witness ==
    /\ Ticked
    /\ isSimulating
    /\ mode = "MANUAL"
    /\ config.targetLevel # InitialConfig.targetLevel
    /\ intervalRef.mode = mode
    /\ intervalRef.config = config
    /\ BagCardinality(tickIntervals) = 1

C17_CancelDiscards ==
    [][/\ handleCancelOrder =>
            /\ activeOrder' = NoOrder
            /\ activeOrderRef' = NoOrder
            /\ lastCompletedOrder' = lastCompletedOrder
       /\ TickStep =>
            /\ activeOrder = NoOrder =>
                  /\ activeOrder' = NoOrder
                  /\ lastCompletedOrder' = lastCompletedOrder
            /\ OrderProgress(NoOrder, systemState'.outflowRate, systemState'.currentPower,
                             config.simulationSpeed) = NoOrder]_vars

\* The first order was cancelled, not completed, and a tick after the cancel
\* held the gate where the order had left it.
C17_Witness ==
    /\ Ticked
    /\ orderSeq = 1
    /\ activeOrder = NoOrder
    /\ lastCompletedOrder = NoOrder
    /\ mode = "AUTO"
    /\ systemState.gateOpening > 0
    /\ systemState.gateStatus = "PARTIALLY OPEN"

\* C18: no order with hectares <= 0 is created: none is in the active slot and
\* none has passed through it into lastCompletedOrder.
C18_InvalidHectaresRejected ==
    /\ activeOrder # NoOrder => activeOrder.hectares > 0 /\ activeOrder.targetVolume > 0
    /\ lastCompletedOrder # NoOrder => lastCompletedOrder.hectares > 0

\* C19 as claimed: the SystemState a tick leaves is decided by the state before
\* it (here even together with the mode and the config): every noise value
\* gives the same result.
C19_TickIgnoresNoise ==
    [][TickStep =>
          \A noise \in Noise :
             systemState' = TickState(systemState, activeOrder, mode, config, noise)]_vars

\* C19 as amended: the SystemState a tick leaves is decided by the SystemState
\* before it, the active order, the mode, the config and the noise drawn for
\* the tick; the ref and the closure of the interval add nothing to them.
C19_TickFunctionOfStateAndNoise ==
    [][TickStep =>
          \E noise \in Noise :
             systemState' = TickState(systemState, activeOrder, mode, config, noise)]_vars

\* A MANUAL tick under a changed setpoint with the noise drawn at its top.
C19_Witness ==
    /\ Ticked
    /\ mode = "MANUAL"
    /\ config.targetLevel = 4 * LevelScale
    /\ systemState.inflowRate = 36 * FlowScale + FlowScale - 1

\* C20: a tick that finds an order in the active slot sets the target to 100
\* and adds its volume and power to that order; a tick that finds the slot
\* empty follows the mode's own law and adds to no order; and no change of the
\* slot touches the tick interval.
C20_TickSeesLatestOrder ==
    [][/\ (TickStep /\ activeOrder # NoOrder) =>
            LET o == IF activeOrder' # NoOrder THEN activeOrder' ELSE lastCompletedOrder'
                dt == config.simulationSpeed
            IN  /\ systemState'.targetGateOpening = FULL_OPEN
                /\ o.id = activeOrder.id
                /\ o.deliveredVolume = activeOrder.deliveredVolume
                      + (systemState'.outflowRate * dt) \div ((1000 * FlowScale) \div VolumeScale)
                /\ o.powerConsumed = activeOrder.powerConsumed + systemState'.currentPower * dt
       /\ (TickStep /\ activeOrder = NoOrder) =>
            /\ activeOrder' = NoOrder
            /\ lastCompletedOrder' = lastCompletedOrder
            /\ systemState'.targetGateOpening =
                  ControlLogic(systemState, NoOrder, mode, config.targetLevel)
       /\ activeOrder' # activeOrder => UNCHANGED <<intervalRef, tickIntervals>>]_vars

\* An order started under the running interval, and one tick at active power
\* that opened the gate for it and delivered water to it.
C20_Witness ==
    /\ activeOrder # NoOrder
    /\ activeOrder.deliveredVolume > 0
    /\ activeOrder.powerConsumed = MOTOR_POWER_ACTIVE * 200
    /\ systemState.targetGateOpening = FULL_OPEN
    /\ intervalRef = IntervalEffect(TRUE, "AUTO", InitialConfig)

\* A jog step: a press of startManualMove or a firing of the hold interval.
JogStep == holdTimerTick \/ \E direction \in Directions : startManualMove(direction)

\* C21: a tick under an active order adds the outflow and the power of that
\* tick, once, to deliveredVolume and powerConsumed and changes nothing else of
\* the order; no other step changes an order that stays in the slot, and its
\* deliveredVolume and powerConsumed never decrease.
C21_OrderAccumulatesPerTick ==
    [][activeOrder # NoOrder =>
          /\ TickStep =>
               LET o == IF activeOrder' # NoOrder THEN activeOrder' ELSE lastCompletedOrder'
                   dt == config.simulationSpeed
               IN  [o EXCEPT !.status = "ACTIVE", !.endTime = "undefined"] =
                      [activeOrder EXCEPT
                         !.deliveredVolume = @ + (systemState'.outflowRate * dt)
                                                    \div ((1000 * FlowScale) \div VolumeScale),
                         !.powerConsumed = @ + systemState'.currentPower * dt]
          /\ (activeOrder' # NoOrder /\ activeOrder'.id = activeOrder.id) =>
               /\ activeOrder'.deliveredVolume >= activeOrder.deliveredVolume
               /\ activeOrder'.powerConsumed >= activeOrder.powerConsumed
               /\ ~TickStep => activeOrder' = activeOrder]_vars

\* An order started at rest with two ticks at active power behind it.
C21_Witness ==
    /\ activeOrder # NoOrder
    /\ activeOrder.deliveredVolume > 0
    /\ activeOrder.powerConsumed = 2 * MOTOR_POWER_ACTIVE * 200
    /\ systemState.totalEnergy = activeOrder.powerConsumed

\* C22: in MANUAL with no active order the target changes only by jog steps,
\* each applied to the target the latest step left and clamped to [0, 100], the
\* other fields kept as the latest tick left them; a tick leaves the target
\* alone and moves the gate towards that latest target.
C22_JogsSurviveTicks ==
    [][(mode = "MANUAL" /\ activeOrder = NoOrder) =>
          LET T == systemState.targetGateOpening
          IN  /\ systemState'.targetGateOpening # T =>
                    /\ JogStep
                    /\ systemState'.targetGateOpening \in
                          {Min(FULL_OPEN, T + GateScale), Max(0, T - GateScale),
                           Min(FULL_OPEN, T + 2 * GateScale), Max(0, T - 2 * GateScale)}
                    /\ systemState' = [systemState EXCEPT
                                         !.targetGateOpening = systemState'.targetGateOpening]
              /\ TickStep =>
                    /\ systemState'.targetGateOpening = T
                    /\ systemState'.gateOpening = MoveGate(systemState.gateOpening, T).gateOpening]_vars

\* Press, repeat, tick, repeat: the target is 1 + 2 + 2 = 5 % and the gate has
\* made one step towards the 3 % it saw.
C22_Witness ==
    /\ mode = "MANUAL"
    /\ activeOrder = NoOrder
    /\ holdTimerRef = "OPEN"
    /\ systemState.targetGateOpening = 5 * GateScale
    /\ systemState.gateOpening = 2 * GateScale
    /\ systemState.totalEnergy = MOTOR_POWER_ACTIVE * 200

\* C23: in MANUAL a press changes targetGateOpening by +1 (OPEN) or -1 (CLOSE)
\* and a firing of the hold interval by +2 or -2, clamped to [0, 100], and
\* neither changes another field of SystemState.
C23_JogStepSizes ==
    [][mode = "MANUAL" =>
          /\ \A direction \in Directions :
                startManualMove(direction) =>
                   systemState' = [systemState EXCEPT !.targetGateOpening =
                                      IF direction = "OPEN" THEN Min(FULL_OPEN, @ + GateScale)
                                      ELSE Max(0, @ - GateScale)]
          /\ holdTimerTick =>
                systemState' = [systemState EXCEPT !.targetGateOpening =
                                   IF holdTimerRef = "OPEN" THEN Min(FULL_OPEN, @ + 2 * GateScale)
                                   ELSE Max(0, @ - 2 * GateScale)]]_vars

\* A CLOSE press from 2 % and one repeat: 1 %, then clamped to 0.
C23_Witness ==
    /\ mode = "MANUAL"
    /\ holdTimerRef = "CLOSE"
    /\ systemState.targetGateOpening = 0
    /\ systemState.gateOpening = 3 * GateScale
    /\ ~Ticked

\* C24: at most one hold interval is live, the one holdTimerRef holds, also
\* after a press that follows a press; a release leaves none, so that no
\* repeat is applied until the next press.
C24_OneHoldTimer ==
    /\ [](/\ BagCardinality(holdIntervals) <= 1
          /\ holdIntervals = IF holdTimerRef = "null" THEN EmptyBag
                             ELSE SetToBag({holdTimerRef}))
    /\ [][/\ stopManualMove => holdIntervals' = EmptyBag /\ holdTimerRef' = "null"
          /\ holdTimerRef = "null" => ~holdTimerTick]_vars

\* OPEN pressed, then CLOSE pressed: 2 % -> 3 % -> 2 %, one interval left.
C24_Witness ==
    /\ mode = "MANUAL"
    /\ holdTimerRef = "CLOSE"
    /\ BagCardinality(holdIntervals) = 1
    /\ systemState.targetGateOpening = 2 * GateScale
    /\ systemState.gateOpening = 0
    /\ stepsLeft = MaxStepsAny - 2

\* C25: an AUTO tick with no active order and |waterLevel - targetLevel| <= 0.2
\* sets targetGateOpening to the gate position and leaves the gate where it
\* is, also when the gate was on its way to another target.
C25_DeadBandHolds ==
    [][(/\ TickStep
        /\ mode = "AUTO"
        /\ activeOrder = NoOrder
        /\ 10 * Abs(systemState.waterLevel - config.targetLevel) <= 2 * LevelScale) =>
          /\ systemState'.targetGateOpening = systemState.gateOpening
          /\ systemState'.gateOpening = systemState.gateOpening]_vars

\* The gate at 3 % on its way to a target of 0, level on the setpoint: the
\* tick stopped it there.
C25_Witness ==
    /\ Ticked
    /\ mode = "AUTO"
    /\ activeOrder = NoOrder
    /\ systemState.gateOpening = 3 * GateScale
    /\ systemState.targetGateOpening = 3 * GateScale
    /\ systemState.gateStatus = "PARTIALLY OPEN"
    /\ stepsLeft = MaxStepsAny - 1

\* C26: a MANUAL tick with no active order leaves targetGateOpening as it was
\* and a gate that is on the target where it is, for every level and setpoint.
C26_ManualHoldsTarget ==
    [][(TickStep /\ mode = "MANUAL" /\ activeOrder = NoOrder) =>
          /\ systemState'.targetGateOpening = systemState.targetGateOpening
          /\ systemState.gateOpening = systemState.targetGateOpening =>
                systemState'.gateOpening = systemState.gateOpening]_vars

\* Level more than 6 m over the setpoint, the gate held on its target of 2 %.
C26_Witness ==
    /\ Ticked
    /\ mode = "MANUAL"
    /\ activeOrder = NoOrder
    /\ systemState.waterLevel > config.targetLevel + 6 * LevelScale
    /\ systemState.targetGateOpening = 2 * GateScale
    /\ systemState.gateOpening = 2 * GateScale
    /\ systemState.gateStatus = "PARTIALLY OPEN"

\* C27: the live tick interval has the period config.simulationSpeed and its
\* closure computes with the same value; a change of simulationSpeed replaces
\* the interval by one with the new period, and a tick adds the energy of the
\* period of the interval that fired it.
C27_PeriodIsTimestep ==
    /\ [](\A timer \in BagToSet(tickIntervals) :
             /\ timer.period = config.simulationSpeed
             /\ timer.config.simulationSpeed = timer.period)
    /\ [][/\ (isSimulating /\ config'.simulationSpeed # config.simulationSpeed) =>
                /\ intervalRef' # intervalRef
                /\ intervalRef'.period = config'.simulationSpeed
                /\ tickIntervals' = SetToBag({intervalRef'})
          /\ TickStep =>
                systemState'.totalEnergy =
                   systemState.totalEnergy + systemState'.currentPower * intervalRef.period]_vars

\* The speed set to 100 ms and one tick at standby power with dt = 0.1 s.
C27_Witness ==
    /\ config.simulationSpeed = 100
    /\ intervalRef.period = 100
    /\ systemState.totalEnergy = MOTOR_POWER_STANDBY * 100

\* C28: an order with targetVolume > 0 that is not cancelled keeps the gate
\* driven towards 100 on every tick and leaves the active slot only as the
\* COMPLETED lastCompletedOrder (an order that left it otherwise can never be
\* completed afterwards).
C28_OrderRunsToCompletion ==
    [][(activeOrder # NoOrder /\ activeOrder.targetVolume > 0) =>
          /\ TickStep =>
                /\ systemState'.targetGateOpening = FULL_OPEN
                /\ systemState'.gateOpening =
                      Min(FULL_OPEN, systemState.gateOpening + GATE_SPEED)
          /\ (activeOrder' # activeOrder /\ ~handleCancelOrder) =>
                \/ /\ activeOrder' # NoOrder
                   /\ activeOrder'.id = activeOrder.id
                \/ /\ activeOrder' = NoOrder
                   /\ lastCompletedOrder'.id = activeOrder.id
                   /\ lastCompletedOrder'.status = "COMPLETED"]_vars

\* C29: in MANUAL the end of an order restores no earlier target: a tick that
\* completes the order leaves the target at 100, a cancel leaves it as it is,
\* and every later tick with no order keeps a target of 100 and moves the gate
\* on towards it.
C29_TargetStaysOpenAfterOrder ==
    [][mode = "MANUAL" =>
          /\ (activeOrder # NoOrder /\ activeOrder' = NoOrder) =>
                systemState'.targetGateOpening =
                   IF TickStep THEN FULL_OPEN ELSE systemState.targetGateOpening
          /\ (/\ TickStep
              /\ activeOrder = NoOrder
              /\ systemState.targetGateOpening = FULL_OPEN) =>
                /\ systemState'.targetGateOpening = FULL_OPEN
                /\ systemState'.gateOpening =
                      Min(FULL_OPEN, systemState.gateOpening + GATE_SPEED)]_vars

\* The order was completed in MANUAL, a tick has run since, and the gate is
\* still on its way to the 100 % the order left as target.
C29_Witness ==
    /\ mode = "MANUAL"
    /\ activeOrder = NoOrder
    /\ lastCompletedOrder # NoOrder
    /\ lastCompletedOrder.hectares = 50 * HectareScale
    /\ systemState.totalEnergy > lastCompletedOrder.powerConsumed - 36000
    /\ systemState.targetGateOpening = FULL_OPEN
    /\ systemState.gateOpening < FULL_OPEN
    /\ systemState.gateStatus = "OPENING"

\* C30: a change of the mode or of targetLevel while simulating clears the live
\* tick interval and sets a new one, with the period simulationSpeed and the new
\* closure; a step that starts, cancels or completes an order leaves the
\* interval alone.
C30_RescheduleOnModeOrSetpoint ==
    [][/\ (isSimulating /\ (mode' # mode \/ config'.targetLevel # config.targetLevel)) =>
            /\ intervalRef' # intervalRef
            /\ intervalRef' = [running |-> TRUE, period |-> config.simulationSpeed,
                               mode |-> mode', config |-> config']
            /\ tickIntervals' = SetToBag({intervalRef'})
       /\ (\/ activeOrder' # activeOrder
           \/ lastCompletedOrder' # lastCompletedOrder
           \/ orderSeq' # orderSeq) =>
            UNCHANGED <<intervalRef, tickIntervals>>]_vars

\* The setpoint moved twice and the mode switched with no tick in between: the
\* interval in place is the third one set since the start.
C30_Witness ==
    /\ ~Ticked
    /\ isSimulating
    /\ mode = "MANUAL"
    /\ config.targetLevel = 13 * LevelScale
    /\ intervalRef.mode = "MANUAL"
    /\ intervalRef.config.targetLevel = 13 * LevelScale
    /\ stepsLeft = MaxSteps - 3

====
